---------------------------- MODULE Spec2Model ----------------------------
(***************************************************************************)
(* Validata: rule-based validation of tabular clinical datasets.           *)
(*                                                                         *)
(* The four validator scripts of the repository are modelled as one state  *)
(* machine:                                                                *)
(*   icd10_validation.py              single-dataset ICD-10 validator      *)
(*   multi_dataset_validation.py      multi-dataset ICD-10 validator       *)
(*   icdo_validation.py               single-dataset ICD-O validator       *)
(*   multi_dataset_icdo_validation.py multi-dataset ICD-O validator        *)
(*                                                                         *)
(* A Python string is a sequence of one-character strings, so that         *)
(* str.strip, str.lower, str.startswith, str.split and re.match are        *)
(* computed character by character.  A field value is a record             *)
(* [t, s, n]: t is its Python type ("nan", "none", "str", "num", "bool"), s its    *)
(* characters when a string, n its number when a number or a boolean.      *)
(***************************************************************************)
EXTENDS Integers, Sequences, FiniteSets, TLC

(***************************************************************************)
(* Python strings and scalars                                              *)
(***************************************************************************)

UpperChars == <<"A", "B", "C", "D", "E", "F", "G", "H", "I", "J", "K", "L", "M", "N", "O", "P", "Q", "R", "S", "T", "U", "V", "W", "X", "Y", "Z">>

LowerChars == <<"a", "b", "c", "d", "e", "f", "g", "h", "i", "j", "k", "l", "m", "n", "o", "p", "q", "r", "s", "t", "u", "v", "w", "x", "y", "z">>

DigitChars == <<"0", "1", "2", "3", "4", "5", "6", "7", "8", "9">>

\* str.strip() without arguments removes leading and trailing whitespace.
Whitespace == {" ", "\t", "\n", "\r"}

Range(f) == {f[i] : i \in DOMAIN f}

\* The lower-case letter of each upper-case letter.
LowerOf ==
    [c \in Range(UpperChars) |->
       LowerChars[CHOOSE i \in DOMAIN UpperChars : UpperChars[i] = c]]

\* One character of str.lower().
LowerChar(c) == IF c \in DOMAIN LowerOf THEN LowerOf[c] ELSE c

\* str.lower()
Lower(s) == [i \in DOMAIN s |-> LowerChar(s[i])]

\* str.strip()
Strip(s) ==
    LET keep == {i \in DOMAIN s : s[i] \notin Whitespace}
    IN  IF keep = {} THEN <<>>
        ELSE LET lo == CHOOSE i \in keep : \A j \in keep : i <= j
                 hi == CHOOSE i \in keep : \A j \in keep : j <= i
             IN  SubSeq(s, lo, hi)

\* str.startswith(prefix)
StartsWith(s, prefix) ==
    /\ Len(prefix) <= Len(s)
    /\ SubSeq(s, 1, Len(prefix)) = prefix

\* str.endswith(suffix)
EndsWith(s, suffix) ==
    /\ Len(suffix) <= Len(s)
    /\ SubSeq(s, Len(s) - Len(suffix) + 1, Len(s)) = suffix

\* The decimal digits of a natural number, as str(n) writes them.
RECURSIVE Digits(_)
Digits(n) ==
    IF n < 10 THEN <<DigitChars[n + 1]>>
    ELSE Digits(n \div 10) \o <<DigitChars[(n % 10) + 1]>>

\* Field values as pandas hands them to the validators.
NaN == [t |-> "nan", s |-> <<>>, n |-> 0]

Str(s) == [t |-> "str", s |-> s, n |-> 0]

Num(n) == [t |-> "num", s |-> <<>>, n |-> n]

Bool(b) == [t |-> "bool", s |-> <<>>, n |-> IF b THEN 1 ELSE 0]

None == [t |-> "none", s |-> <<>>, n |-> 0]

\* pd.isna(value)
IsNa(v) == v.t \in {"nan", "none"}

\* str(value), also what an f-string writes for {value}.
PyStr(v) ==
    CASE v.t = "str"  -> v.s
      [] v.t = "num"  -> Digits(v.n)
      [] v.t = "bool" -> IF v.n = 1 THEN <<"T", "r", "u", "e">> ELSE <<"F", "a", "l", "s", "e">>
      [] v.t = "none" -> <<"N", "o", "n", "e">>
      [] OTHER        -> <<"n", "a", "n">>

\* a == b in Python: numbers and booleans compare by number, strings by
\* their characters, a string never equals a number, NaN equals nothing.
PyEq(a, b) ==
    \/ a.t = "str" /\ b.t = "str" /\ a.s = b.s
    \/ a.t \in {"num", "bool"} /\ b.t \in {"num", "bool"} /\ a.n = b.n
    \/ a.t = "none" /\ b.t = "none"

\* value in list
PyIn(v, list) == \E i \in DOMAIN list : PyEq(v, list[i])

\* bool(value), the test of `if value:`.  NaN is a non-zero float.
Truthy(v) ==
    CASE v.t = "str" -> Len(v.s) > 0
      [] v.t = "nan" -> TRUE
      [] v.t = "none" -> FALSE
      [] OTHER       -> v.n # 0

\* Whether value.strip() / value.startswith() exist: only str has them; on a
\* float, an int or a bool the call raises AttributeError.
HasStrMethods(v) == v.t = "str"

(***************************************************************************)
(* re.match(rules['Cause of Death']['regex'], s)                           *)
(*   ^C\d{1,2}(\.\d+)?(-C\d{1,2}(\.\d+)?)?(,C\d{1,2}(\.\d+)?(-C\d{1,2}(\.\d+)?)?)*$ *)
(* Each Re* operator maps a set of positions P of s (1-based, the next     *)
(* character to read) to the set of positions after one match of its       *)
(* sub-pattern started at some position of P.                              *)
(***************************************************************************)

\* A literal character c.
ReLit(s, c, P) == {p + 1 : p \in {q \in P : q <= Len(s) /\ s[q] = c}}

\* \d
ReDigit(s, P) ==
    {p + 1 : p \in {q \in P : q <= Len(s) /\ s[q] \in Range(DigitChars)}}

\* \d{1,2}
ReDigits12(s, P) == ReDigit(s, P) \cup ReDigit(s, ReDigit(s, P))

\* \d+
RECURSIVE ReDigitsPlus(_, _)
ReDigitsPlus(s, P) ==
    LET Q == ReDigit(s, P)
    IN  IF Q = {} THEN {} ELSE Q \cup ReDigitsPlus(s, Q)

\* C\d{1,2}(\.\d+)?
ReCode(s, P) ==
    LET a == ReDigits12(s, ReLit(s, "C", P))
    IN  a \cup ReDigitsPlus(s, ReLit(s, ".", a))

\* C\d{1,2}(\.\d+)?(-C\d{1,2}(\.\d+)?)?
ReCodeRange(s, P) ==
    LET a == ReCode(s, P)
    IN  a \cup ReCode(s, ReLit(s, "-", a))

\* (,C\d{1,2}(\.\d+)?(-C\d{1,2}(\.\d+)?)?)*
RECURSIVE ReMore(_, _)
ReMore(s, P) ==
    LET Q == ReCodeRange(s, ReLit(s, ",", P))
    IN  IF Q = {} THEN P ELSE P \cup ReMore(s, Q)

\* $ without re.MULTILINE: at the end of the string, or just before a
\* newline that is the last character of the string.
ReDollar(s, p) ==
    \/ p = Len(s) + 1
    \/ p = Len(s) /\ s[p] = "\n"

\* re.match(regex, s) is not None.  re.match starts at position 1 (and ^
\* holds there).
ReMatchCauseOfDeath(s) ==
    \E p \in ReMore(s, ReCodeRange(s, {1})) : ReDollar(s, p)

(***************************************************************************)
(* The rule catalogs                                                       *)
(***************************************************************************)

\* The columns validate_icd10 keeps a tally for.
Icd10Columns ==
    {"Cause of Death", "Cause of Death Attributable to Treatment",
     "Vital Status", "ICD Version", "ICD Code", "Disability",
     "On Clinical Trial", "Clinical Trial Numbers"}

\* The columns validate_icdo_data reads.
IcdoColumns == {"Histology", "Staging System"}

\* A column name as the characters an f-string writes.
ColumnChars(column) ==
    CASE column = "Cause of Death" -> <<"C", "a", "u", "s", "e", " ", "o", "f", " ", "D", "e", "a", "t", "h">>
      [] column = "Cause of Death Attributable to Treatment" ->
             <<"C", "a", "u", "s", "e", " ", "o", "f", " ", "D", "e", "a", "t", "h", " ", "A", "t", "t", "r", "i", "b", "u", "t", "a", "b", "l", "e", " ", "t", "o", " ", "T", "r", "e", "a", "t", "m", "e", "n", "t">>
      [] column = "Vital Status" -> <<"V", "i", "t", "a", "l", " ", "S", "t", "a", "t", "u", "s">>
      [] column = "ICD Version" -> <<"I", "C", "D", " ", "V", "e", "r", "s", "i", "o", "n">>
      [] column = "ICD Code" -> <<"I", "C", "D", " ", "C", "o", "d", "e">>
      [] column = "Disability" -> <<"D", "i", "s", "a", "b", "i", "l", "i", "t", "y">>
      [] column = "On Clinical Trial" -> <<"O", "n", " ", "C", "l", "i", "n", "i", "c", "a", "l", " ", "T", "r", "i", "a", "l">>
      [] column = "Clinical Trial Numbers" -> <<"C", "l", "i", "n", "i", "c", "a", "l", " ", "T", "r", "i", "a", "l", " ", "N", "u", "m", "b", "e", "r", "s">>
      [] column = "Histology" -> <<"H", "i", "s", "t", "o", "l", "o", "g", "y">>
      [] column = "Staging System" -> <<"S", "t", "a", "g", "i", "n", "g", " ", "S", "y", "s", "t", "e", "m">>

TreatmentValues ==
    << <<"U", "n", "k", "n", "o", "w", "n">>,
       <<"P", "r", "o", "b", "a", "b", "l", "y", " ", "R", "e", "l", "a", "t", "e", "d">>,
       <<"D", "e", "f", "i", "n", "i", "t", "e", "l", "y", " ", "R", "e", "l", "a", "t", "e", "d">> >>

VitalStatusValues == << <<"A", "l", "i", "v", "e">>, <<"D", "e", "a", "d">> >>

IcdVersionValues == << <<"I", "C", "D", "9">>, <<"I", "C", "D", "1", "0">> >>

DisabilityValues ==
    << <<"H", "e", "a", "r", "i", "n", "g", " ", "d", "i", "f", "f", "i", "c", "u", "l", "t", "y">>,
       <<"V", "i", "s", "i", "o", "n", " ", "d", "i", "f", "f", "i", "c", "u", "l", "t", "y">>,
       <<"C", "o", "g", "n", "i", "t", "i", "v", "e", " ", "d", "i", "f", "f", "i", "c", "u", "l", "t", "y">>,
       <<"A", "m", "b", "u", "l", "a", "t", "o", "r", "y", " ", "d", "i", "f", "f", "i", "c", "u", "l", "t", "y">>,
       <<"S", "e", "l", "f", "-", "c", "a", "r", "e", " ", "d", "i", "f", "f", "i", "c", "u", "l", "t", "y">>,
       <<"I", "n", "d", "e", "p", "e", "n", "d", "e", "n", "t", " ", "l", "i", "v", "i", "n", "g", " ", "d", "i", "f", "f", "i", "c", "u", "l", "t", "y">> >>

\* A rule of the `rules` dict.  regex, binary: whether the key is present
\* (and true); sv: whether 'standard_values' is absent ("none"), a list
\* ("list", in standard_values) or a string ("str", in sv_str).
Rule(column, allow_null, regex, binary, sv, standard_values, sv_str) ==
    [column |-> column, allow_null |-> allow_null, regex |-> regex,
     binary |-> binary, sv |-> sv, standard_values |-> standard_values,
     sv_str |-> sv_str]

\* multi_dataset_validation.py: rules, in the dict's declared order.
rules_multi ==
    << Rule("Cause of Death", TRUE, TRUE, FALSE, "none", <<>>, <<>>),
       Rule("Cause of Death Attributable to Treatment", TRUE, FALSE, FALSE,
            "list", TreatmentValues, <<>>),
       Rule("Vital Status", FALSE, FALSE, FALSE, "list", VitalStatusValues, <<>>),
       Rule("ICD Version", FALSE, FALSE, FALSE, "list", IcdVersionValues, <<>>),
       Rule("ICD Code", FALSE, FALSE, FALSE, "str", <<>>, <<"I", "C", "D", " ", "c", "o", "d", "e", " ", "l", "i", "s", "t">>),
       Rule("Disability", TRUE, FALSE, FALSE, "list", DisabilityValues, <<>>),
       Rule("On Clinical Trial", TRUE, FALSE, TRUE, "none", <<>>, <<>>),
       Rule("Clinical Trial Numbers", TRUE, FALSE, FALSE, "none", <<>>, <<>>) >>

\* icd10_validation.py: rules, in the dict's declared order.
rules_single ==
    << Rule("Cause of Death", TRUE, FALSE, FALSE, "str", <<>>, <<"I", "C", "D", "1", "0", " ", "C", "o", "d", "e", "s">>),
       Rule("Cause of Death Attributable to Treatment", TRUE, FALSE, FALSE,
            "list", TreatmentValues, <<>>),
       Rule("Vital Status", FALSE, FALSE, FALSE, "list", VitalStatusValues, <<>>),
       Rule("ICD Version", FALSE, FALSE, FALSE, "list", IcdVersionValues, <<>>),
       Rule("ICD Code", FALSE, FALSE, FALSE, "str", <<>>, <<"I", "C", "D", " ", "c", "o", "d", "e", " ", "l", "i", "s", "t">>),
       Rule("Disability", TRUE, FALSE, FALSE, "list", DisabilityValues, <<>>),
       Rule("On Clinical Trial", TRUE, FALSE, TRUE, "none", <<>>, <<>>),
       Rule("Clinical Trial Numbers", TRUE, FALSE, FALSE, "none", <<>>, <<>>) >>

\* multi_dataset_validation.py line 112: the accepted binary tokens.
BinaryTokens ==
    << Num(0), Num(1), Str(<<"0">>), Str(<<"1">>), Bool(TRUE), Bool(FALSE),
       Str(<<"T", "r", "u", "e">>), Str(<<"F", "a", "l", "s", "e">>) >>

\* main() of multi_dataset_icdo_validation.py and validate_histology of
\* icdo_validation.py: the valid histology values.
valid_histology ==
    << <<"A", "d", "e", "n", "o", "c", "a", "r", "c", "i", "n", "o", "m", "a">>,
       <<"D", "u", "c", "t", "a", "l", " ", "C", "a", "r", "c", "i", "n", "o", "m", "a">>,
       <<"S", "m", "a", "l", "l", " ", "C", "e", "l", "l", " ", "C", "a", "r", "c", "i", "n", "o", "m", "a">>,
       <<"A", "c", "i", "n", "a", "r", " ", "a", "d", "e", "n", "o", "c", "a", "r", "c", "i", "n", "o", "m", "a">>,
       <<"M", "u", "c", "i", "n", "o", "u", "s", " ", "(", "c", "o", "l", "l", "o", "i", "d", ")", " ", "a", "c", "i", "n", "a", "r", " ", "a", "d", "e", "n", "o", "c", "a", "r", "c", "i", "n", "o", "m", "a">>,
       <<"S", "i", "g", "n", "e", "t", " ", "r", "i", "n", "g", "-", "l", "i", "k", "e", " ", "c", "e", "l", "l", " ", "a", "c", "i", "n", "a", "r", " ", "a", "d", "e", "n", "o", "c", "a", "r", "c", "i", "n", "o", "m", "a">>,
       <<"S", "a", "r", "c", "o", "m", "a", "t", "o", "i", "d", " ", "a", "c", "i", "n", "a", "r", " ", "a", "d", "e", "n", "o", "c", "a", "r", "c", "i", "n", "o", "m", "a">>,
       <<"P", "r", "o", "s", "t", "a", "t", "i", "c", " ", "i", "n", "t", "r", "a", "e", "p", "i", "t", "h", "e", "l", "i", "a", "l", " ", "n", "e", "o", "p", "l", "a", "s", "i", "a", " ", "(", "h", "i", "g", "h", " ", "g", "r", "a", "d", "e", ")">>,
       <<"I", "n", "t", "r", "a", "d", "u", "c", "t", "a", "l", " ", "c", "a", "r", "c", "i", "n", "o", "m", "a">>,
       <<"P", "a", "p", "i", "l", "l", "a", "r", "y", " ", "D", "u", "c", "t", "a", "l", " ", "A", "d", "e", "n", "o", "c", "a", "r", "c", "i", "n", "o", "m", "a">>,
       <<"U", "r", "o", "t", "h", "e", "l", "i", "a", "l", " ", "C", "a", "r", "c", "i", "n", "o", "m", "a">>,
       <<"S", "q", "u", "a", "m", "o", "u", "s", " ", "c", "e", "l", "l", " ", "c", "a", "r", "c", "i", "n", "o", "m", "a">>,
       <<"B", "a", "s", "a", "l", " ", "c", "e", "l", "l", " ", "c", "a", "r", "c", "i", "n", "o", "m", "a">>,
       <<"W", "e", "l", "l", "-", "d", "i", "f", "f", "e", "r", "e", "n", "t", "i", "a", "t", "e", "d", " ", "n", "e", "u", "r", "o", "e", "n", "d", "o", "c", "r", "i", "n", "e", " ", "t", "u", "m", "o", "r">>,
       <<"L", "a", "r", "g", "e", " ", "c", "e", "l", "l", " ", "n", "e", "u", "r", "o", "e", "n", "d", "o", "c", "r", "i", "n", "e", " ", "c", "a", "r", "c", "i", "n", "o", "m", "a">> >>

valid_staging_systems == << <<"A", "J", "C", "C", "9">>, <<"A", "J", "C", "C", "8">>, <<"A", "J", "C", "C", "7">> >>

\* [value.lower() for value in values]
Normalized(values) == [i \in DOMAIN values |-> Lower(values[i])]

\* multi_dataset_icdo_validation.py line 46: valid_histology_normalized
valid_histology_normalized == Normalized(valid_histology)

\* multi_dataset_icdo_validation.py line 72: valid_staging_systems_normalized
valid_staging_systems_normalized == Normalized(valid_staging_systems)

\* A list of Python strings as field values, for `value in list`.
StrList(values) == [i \in DOMAIN values |-> Str(values[i])]

(***************************************************************************)
(* Issues.  An issue is kept as the fields its f-string formats; IssueText *)
(* is the string itself.                                                   *)
(***************************************************************************)

Issue(dataset, row, column, value, kind, suggestion) ==
    [dataset |-> dataset, row |-> row, column |-> column, value |-> value,
     kind |-> kind, suggestion |-> suggestion]

\* ', '.join(values)
RECURSIVE JoinComma(_)
JoinComma(values) ==
    IF Len(values) = 0 THEN <<>>
    ELSE IF Len(values) = 1 THEN values[1]
    ELSE values[1] \o <<", ">> \o JoinComma(Tail(values))

\* rule['standard_values'] of the issue's column, for the suggestion text.
StandardValuesOf(column) ==
    CASE column = "Cause of Death Attributable to Treatment" -> TreatmentValues
      [] column = "Vital Status" -> VitalStatusValues
      [] column = "ICD Version" -> IcdVersionValues
      [] column = "Disability" -> DisabilityValues
      [] OTHER -> <<>>

\* The issue string: a sequence of characters, the quote-free literal text
\* of the f-string kept in chunks.
IssueText(i) ==
    LET q == <<"'">>
        where == <<"Row ">> \o Digits(i.row) \o <<", Column ">> \o q
                 \o ColumnChars(i.column) \o q \o <<": ">>
        val == q \o PyStr(i.value) \o q
    IN  CASE i.kind = "format" ->
               <<"Dataset: ">> \o i.dataset \o <<", ">> \o where
               \o <<"Invalid value: ">> \o val
               \o <<". Suggested correction: Use a valid ICD-10 code format.">>
          [] i.kind = "standard" ->
               <<"Dataset: ">> \o i.dataset \o <<", ">> \o where
               \o <<"Invalid value: ">> \o val
               \o <<". Suggested correction: Use one of the standard values: ">>
               \o JoinComma(StandardValuesOf(i.column)) \o <<".">>
          [] i.kind = "binary" ->
               <<"Dataset: ">> \o i.dataset \o <<", ">> \o where
               \o <<"Invalid value: ">> \o val
               \o <<". Suggested correction: Use binary values (0 or 1).">>
          [] i.kind = "legacy_binary" ->
               where \o <<"Invalid value: ">> \o val
               \o <<". Suggested correction: Should be ">> \o q \o <<"1">> \o q
               \o <<" if the patient is on a clinical trial, otherwise leave blank.">>
          [] i.kind = "standard_such_as" ->
               where \o <<"Invalid value: ">> \o val
               \o <<". Suggested correction: Use one of the standard values, such as ">>
               \o JoinComma(StandardValuesOf(i.column)) \o <<".">>
          [] i.kind = "icd10_code" ->
               where \o <<"Invalid ICD-10 code: ">> \o val
               \o <<". Please refer to the ICD-10 codes for a valid entry.">>
          [] i.kind = "histology_suggest" ->
               where \o <<"Invalid histology value: ">> \o val
               \o <<". Suggested correction: ">> \o q \o i.suggestion \o q
               \o <<".">>
          [] i.kind = "histology_generic" ->
               where \o <<"Invalid histology value: ">> \o val
               \o <<". Suggested correction: Use one of the standard values, such as ">>
               \o q \o <<"Adenocarcinoma">> \o q \o <<", ">>
               \o q \o <<"Ductal Carcinoma">> \o q \o <<", etc.">>
          [] i.kind = "staging" ->
               where \o <<"Invalid staging system value: ">> \o val
               \o <<". Suggested correction: Use one of the standard values, such as ">>
               \o q \o <<"AJCC9">> \o q \o <<", ">> \o q \o <<"AJCC8">> \o q
               \o <<", or ">> \o q \o <<"AJCC7">> \o q \o <<".">>

(***************************************************************************)
(* validate_icd10: the body of the loop over the rules, for one cell.      *)
(* st = [issues, counts, raised] are the function's locals                 *)
(* compliance_issues and compliance_counts, and whether an exception has   *)
(* left the function.                                                      *)
(***************************************************************************)

CountTotal(st, column) ==
    [st EXCEPT !.counts[column].total = @ + 1]

CountValid(st, column) ==
    [st EXCEPT !.counts[column].valid = @ + 1]

\* The issue put at the front of the list instead of its end.
AppendIssue_Front(st, issue) ==
    [st EXCEPT !.issues = <<issue>> \o @]

AppendIssue(st, issue) ==
    [st EXCEPT !.issues = Append(@, issue)]

Raise(st) == [st EXCEPT !.raised = TRUE]

\* The null test skipped: a null value is evaluated like any other.
NullIsValid_Never(value, rule) == FALSE

\* multi_dataset_validation.py line 94, icd10_validation.py line 68:
\* pd.isna(value) and rule.get('allow_null', False)
NullIsValid(value, rule) == IsNa(value) /\ rule.allow_null

\* multi_dataset_validation.py, lines 88-115.
CellMulti(st, rule, columns, row, rownum, name) ==
    IF rule.column \notin columns THEN st
    ELSE
      LET value == row[rule.column]
          counted == CountTotal(st, rule.column)
          issue(kind) == Issue(name, rownum, rule.column, value, kind, <<>>)
      IN  IF NullIsValid(value, rule)
            THEN CountValid(counted, rule.column)
          ELSE IF rule.regex
            THEN IF ReMatchCauseOfDeath(PyStr(value))
                   THEN CountValid(counted, rule.column)
                   ELSE AppendIssue(counted, issue("format"))
          ELSE IF rule.sv = "list"
            THEN IF PyIn(value, StrList(rule.standard_values))
                   THEN CountValid(counted, rule.column)
                   ELSE AppendIssue(counted, issue("standard"))
          ELSE IF rule.binary /\ ~PyIn(value, BinaryTokens)
            THEN AppendIssue(counted, issue("binary"))
          ELSE counted

\* icd10_validation.py, validate_icd10_code: code.startswith('C').
\* "raise" when code has no startswith.
validate_icd10_code(code) ==
    IF ~HasStrMethods(code) THEN "raise"
    ELSE IF StartsWith(code.s, <<"C">>) THEN "true"
    ELSE "false"

\* icd10_validation.py line 74: value in [1, None]
LegacyBinaryTokens == << Num(1), None >>

\* icd10_validation.py, lines 60-96.
CellSingle(st, rule, columns, row, rownum) ==
    IF rule.column \notin columns THEN st
    ELSE
      LET value == row[rule.column]
          counted == CountTotal(st, rule.column)
          issue(kind) == Issue(<<>>, rownum, rule.column, value, kind, <<>>)
      IN  IF NullIsValid(value, rule)
            THEN CountValid(counted, rule.column)
          ELSE IF rule.binary
            THEN IF PyIn(value, LegacyBinaryTokens)
                   THEN CountValid(counted, rule.column)
                   ELSE AppendIssue(counted, issue("legacy_binary"))
          ELSE IF rule.sv = "list"
            THEN IF PyIn(value, StrList(rule.standard_values))
                   THEN CountValid(counted, rule.column)
                   ELSE AppendIssue(counted, issue("standard_such_as"))
          ELSE IF rule.sv = "str" /\ rule.sv_str = <<"I", "C", "D", "1", "0", " ", "C", "o", "d", "e", "s">>
            THEN LET ok == validate_icd10_code(value)
                 IN  IF ok = "raise" THEN Raise(counted)
                     ELSE IF ok = "true" THEN CountValid(counted, rule.column)
                     ELSE AppendIssue(counted, issue("icd10_code"))
          ELSE counted

\* One iteration of `for index, row in data.iterrows()`: the rules in the
\* dict's order, from rule i on; an exception ends the function.
RECURSIVE RowMulti(_, _, _, _, _, _)
RowMulti(st, i, columns, row, rownum, name) ==
    IF i > Len(rules_multi) THEN st
    ELSE RowMulti(CellMulti(st, rules_multi[i], columns, row, rownum, name),
                  i + 1, columns, row, rownum, name)

RECURSIVE RowSingle(_, _, _, _, _)
RowSingle(st, i, columns, row, rownum) ==
    IF i > Len(rules_single) \/ st.raised THEN st
    ELSE RowSingle(CellSingle(st, rules_single[i], columns, row, rownum),
                   i + 1, columns, row, rownum)

\* validate_icd10's locals before the loop over the rows.
\* multi_dataset_validation.py lines 42-45, icd10_validation.py 13-16.
FreshLocals(columns) ==
    [issues |-> <<>>,
     counts |-> [c \in columns \cap Icd10Columns |->
                   [valid |-> 0, total |-> 0]],
     raised |-> FALSE]

\* validate_icd10(data, dataset_name) of script s run from its start over
\* rows k..n of d, continuing from the locals st.
RECURSIVE validate_icd10(_, _, _, _, _, _)
validate_icd10(s, st, d, name, k, n) ==
    IF k > n \/ st.raised THEN st
    ELSE validate_icd10(s,
           IF s = "multi_dataset_validation"
           THEN RowMulti(st, 1, d.columns, d.rows[k], k, name)
           ELSE RowSingle(st, 1, d.columns, d.rows[k], k),
           d, name, k + 1, n)

(***************************************************************************)
(* validate_icdo_data: one iteration of the loop over the rows.            *)
(* st = [issues, total_histology, compliant_histology, total_staging,      *)
(*       compliant_staging, raised]                                        *)
(***************************************************************************)

\* row.get(column, '')
RowGet(row, columns, column) ==
    IF column \in columns THEN row[column] ELSE Str(<<>>)

\* multi_dataset_icdo_validation.py, validate_histology.  fz is what
\* process.extractOne returns: [closest_match, score].  The result is
\* "raise", "none" (None: no issue) or the kind of the message.
validate_histology_multi(row_value, fz) ==
    IF ~HasStrMethods(row_value) THEN "raise"
    ELSE IF Lower(Strip(row_value.s)) \notin Range(valid_histology_normalized)
      THEN IF fz.score > 80 THEN "histology_suggest" ELSE "histology_generic"
    ELSE "none"

\* validate_staging_system comparing the value as it is, as icdo_validation.py
\* does.
validate_staging_system_exact(row_value) ==
    IF ~HasStrMethods(row_value) THEN "raise"
    ELSE IF row_value.s \notin Range(valid_staging_systems) THEN "staging"
    ELSE "none"

\* multi_dataset_icdo_validation.py, validate_staging_system.
validate_staging_system_multi(row_value) ==
    IF ~HasStrMethods(row_value) THEN "raise"
    ELSE IF Lower(Strip(row_value.s)) \notin Range(valid_staging_systems_normalized)
      THEN "staging"
    ELSE "none"

\* icdo_validation.py, validate_histology.
validate_histology_single(row_value) ==
    IF ~PyIn(row_value, StrList(valid_histology)) THEN "histology_generic"
    ELSE "none"

\* icdo_validation.py, validate_staging_system.
validate_staging_system_single(row_value) ==
    IF ~PyIn(row_value, StrList(valid_staging_systems)) THEN "staging"
    ELSE "none"

\* The Histology half of the loop body.  verdict is validate_histology's
\* result for the cell.
HistologyStep(st, value, verdict, rownum, fz) ==
    IF ~Truthy(value) THEN st
    ELSE LET counted == [st EXCEPT !.total_histology = @ + 1]
         IN  IF verdict = "raise" THEN Raise(counted)
             ELSE IF verdict # "none"
               THEN AppendIssue(counted,
                      Issue(<<>>, rownum, "Histology", value, verdict,
                            IF verdict = "histology_suggest"
                            THEN fz.closest_match ELSE <<>>))
             ELSE [counted EXCEPT !.compliant_histology = @ + 1]

\* The Staging System half of the loop body.
StagingStep(st, value, verdict, rownum) ==
    IF st.raised \/ ~Truthy(value) THEN st
    ELSE LET counted == [st EXCEPT !.total_staging = @ + 1]
         IN  IF verdict = "raise" THEN Raise(counted)
             ELSE IF verdict # "none"
               THEN AppendIssue(counted,
                      Issue(<<>>, rownum, "Staging System", value, verdict, <<>>))
             ELSE [counted EXCEPT !.compliant_staging = @ + 1]

\* multi_dataset_icdo_validation.py, lines 98-117.
RowIcdoMulti(st, columns, row, rownum, fz) ==
    LET h == RowGet(row, columns, "Histology")
        s == RowGet(row, columns, "Staging System")
    IN  StagingStep(
          HistologyStep(st, h, validate_histology_multi(h, fz), rownum, fz),
          s, validate_staging_system_multi(s), rownum)

\* icdo_validation.py, lines 93-112.
RowIcdoSingle(st, columns, row, rownum) ==
    LET h == RowGet(row, columns, "Histology")
        s == RowGet(row, columns, "Staging System")
        nofz == [closest_match |-> <<>>, score |-> 0]
    IN  StagingStep(
          HistologyStep(st, h, validate_histology_single(h), rownum, nofz),
          s, validate_staging_system_single(s), rownum)

(***************************************************************************)
(* Compliance rates and the error summary                                  *)
(***************************************************************************)

\* A percentage valid / total * 100 as the exact fraction <<num, den>>.
Pct(valid, total) == <<valid * 100, total>>

\* The whole percentage p.
Whole(p) == <<p, 1>>

\* multi_dataset_validation.py line 154, icd10_validation.py line 134.
Icd10Rate(counts) ==
    IF counts.total > 0 THEN Pct(counts.valid, counts.total) ELSE Whole(100)

\* multi_dataset_icdo_validation.py lines 121-122, icdo_validation.py 116-117.
IcdoRate(compliant, total) ==
    IF total > 0 THEN Pct(compliant, total) ELSE Whole(0)

\* str.split("'"): the pieces of text between the quote characters.
RECURSIVE SplitQuote(_, _)
SplitQuote(text, piece) ==
    IF Len(text) = 0 THEN <<piece>>
    ELSE IF Head(text) = "'" THEN <<piece>> \o SplitQuote(Tail(text), <<>>)
    ELSE SplitQuote(Tail(text), Append(piece, Head(text)))

\* multi_dataset_icdo_validation.py line 156: issue.split("'")[1].
\* (Python indexes from 0.)  Every issue string holds a quote.
ErrorValue(issueText) == SplitQuote(issueText, <<>>)[2]

\* multi_dataset_icdo_validation.py lines 154-160: error_summary, built
\* issue by issue from issue k on, as a function from the keys to counts.
RECURSIVE ErrorSummary(_, _, _)
ErrorSummary(summary, issueList, k) ==
    IF k > Len(issueList) THEN summary
    ELSE LET error_value == ErrorValue(IssueText(issueList[k]))
         IN  ErrorSummary(
               IF error_value \in DOMAIN summary
               THEN [summary EXCEPT ![error_value] = @ + 1]
               ELSE [e \in DOMAIN summary \cup {error_value} |->
                       IF e = error_value THEN 1 ELSE summary[e]],
               issueList, k + 1)

(***************************************************************************)
(* Bounds and inputs                                                       *)
(***************************************************************************)

\* Cells (rows times columns) of a dataset, files of a run, and the length
\* of the strings tried against the Cause of Death pattern.
MaxCells == 4

MaxFiles == 2

\* The choices process.extractOne is tried with as its answer: the first
\* MaxChoices entries of the list it is given.
MaxChoices == 2

MaxStrLen == 3

Scripts ==
    {"icd10_validation", "multi_dataset_validation",
     "icdo_validation", "multi_dataset_icdo_validation"}

MultiScripts == {"multi_dataset_validation", "multi_dataset_icdo_validation"}

Icd10Scripts == {"icd10_validation", "multi_dataset_validation"}

IcdoScripts == {"icdo_validation", "multi_dataset_icdo_validation"}

\* The columns of a dataset that the script reads.
ScriptColumns(s) == IF s \in Icd10Scripts THEN Icd10Columns ELSE IcdoColumns

\* icd10_validation.py line 115, icdo_validation.py line 151: file_path.
DefaultPath == <<"H", "o", "s", "p", "i", "t", "a", "l", " ", "P", "a", "t", "i", "e", "n", "t", " ", "D", "a", "t", "a", "s", "e", "t", " ", "V", "a", "l", "i", "d", "a", "t", "a", ".", "c", "s", "v">>

\* File paths tried in the multi-dataset runs: two with the same base
\* name and one with an unsupported extension.
Paths == { <<"a", ".", "c", "s", "v">>, <<"d", "/", "a", ".", "c", "s", "v">>, <<"c", ".", "t", "x", "t">> }

\* All sequences over S of length at most n.
SeqsUpTo(S, n) == UNION {[1..k -> S] : k \in 0..n}

\* Strings tried against the Cause of Death pattern.
ReAlphabet == {"C", "1", "5", ".", "-", ",", "\n"}

\* Values of every type, tried in every column.
CommonValues ==
    {NaN, None, Num(0), Num(1), Num(2), Num(15), Bool(TRUE), Bool(FALSE),
     Str(<<>>), Str(<<" ">>), Str(<<"0">>), Str(<<"1">>), Str(<<"T", "r", "u", "e">>),
     Str(<<"F", "a", "l", "s", "e">>), Str(<<"t", "r", "u", "e">>), Str(<<"y", "e", "s">>), Str(<<"x", "y", "z">>)}

\* An allowed value and its variants in case and surrounding whitespace.
Variants(v) ==
    {Str(v), Str(Lower(v)), Str(<<" ">> \o v), Str(v \o <<" ">>),
     Str(<<"\t">> \o Lower(v) \o <<"\n">>), Str(v \o <<"x">>)}

VariantsOf(values) == UNION {Variants(values[i]) : i \in DOMAIN values}

\* The values tried in a one-cell dataset of the column.
WideValues(column) ==
    CommonValues \cup
    CASE column = "Cause of Death" ->
           {Str(s) : s \in SeqsUpTo(ReAlphabet, MaxStrLen)}
           \cup {Str(<<"C", "1", "5", ",", "C", "1", "6", ".", "1", "-", "C", "2", "0">>), Str(<<"1", "5", "C">>), Str(<<"C", "1", "5", ".", "1", "2", "-", "C", "1", "6">>),
                 Str(<<"C", "1", "5", "x">>), Str(<<"x", "C", "1", "5">>), Str(<<"c", "1", "5">>)}
      [] column = "Histology" ->
           VariantsOf(valid_histology) \cup {Str(<<"a", "d", "e", "n", "o", "c", "a", "r", "c", "i", "m", "o", "n", "a">>)}
      [] column = "Staging System" -> VariantsOf(valid_staging_systems)
      [] column \in {"ICD Code", "Clinical Trial Numbers"} ->
           {Str(<<"C", "1", "5">>), Str(<<"N", "C", "T", "0", "1">>)}
      [] column = "On Clinical Trial" -> {Str(<<"T", "R", "U", "E">>), Str(<<" ", "1">>)}
      [] OTHER ->
           VariantsOf(StandardValuesOf(column)) \cup {Str(<<"D", "e", "c", "e", "a", "s", "e", "d">>)}

\* The values tried in the datasets of several cells.
NarrowValues(column) ==
    CASE column = "Histology" -> {NaN, Str(<<"x", "y", "z">>), Str(<<"A", "d", "e", "n", "o", "c", "a", "r", "c", "i", "n", "o", "m", "a">>)}
      [] column = "Staging System" -> {NaN, Str(<<"I", "V">>), Str(<<"A", "J", "C", "C", "8">>)}
      [] column = "Cause of Death" -> {NaN, Str(<<"x", "y", "z">>), Num(15)}
      [] column = "On Clinical Trial" -> {NaN, Str(<<"x", "y", "z">>), Num(1)}
      [] OTHER -> {NaN, Str(<<"x", "y", "z">>)}

NarrowUniverse == UNION {NarrowValues(c) : c \in Icd10Columns \cup IcdoColumns}

\* The rows over the columns C with narrow values.
NarrowRows(C) ==
    {r \in [C -> NarrowUniverse] : \A c \in C : r[c] \in NarrowValues(c)}

\* A DataFrame: its columns and its rows in order, each a function from
\* the columns to field values.
DataFrame(columns, rows) == [columns |-> columns, rows |-> rows]

NoData == DataFrame({}, <<>>)

\* The datasets of one cell, with every value of WideValues.
IsWideDataset(d, cols) ==
    \E c \in cols : \E v \in WideValues(c) :
        d = DataFrame({c}, <<[x \in {c} |-> v]>>)

\* The datasets of at most maxCells cells: any columns and any number of
\* rows whose product is at most maxCells, with narrow values.
IsDeepDataset(d, cols, maxCells) ==
    \E C \in {S \in SUBSET cols : Cardinality(S) <= maxCells} :
      \E n \in 0..maxCells :
        /\ Cardinality(C) * n <= maxCells
        /\ \E rows \in [1..n -> NarrowRows(C)] : d = DataFrame(C, rows)

\* The datasets a file may hold: in a run over one file, the one-cell
\* datasets with wide values and the datasets of up to MaxCells cells; in
\* a run over several files, one-cell datasets with narrow values.
IsDataset(d, s, nfiles) ==
    IF nfiles <= 1
    THEN \/ IsWideDataset(d, ScriptColumns(s))
         \/ IsDeepDataset(d, ScriptColumns(s), MaxCells)
    ELSE \E c \in ScriptColumns(s) : \E v \in NarrowValues(c) :
           d = DataFrame({c}, <<[x \in {c} |-> v]>>)

\* What process.extractOne(row_value, valid_histology_normalized) may
\* return: one of the choices and a score from 0 to 100.  The scorer is the
\* fuzzywuzzy library's; each of the first MaxChoices choices and any side
\* of the threshold is taken.
FuzzyResults ==
    {[closest_match |-> valid_histology_normalized[i], score |-> sc] :
       i \in 1..MaxChoices, sc \in {0, 80, 81, 100}}

\* The result when process.extractOne is not called.
NoFuzzyResult == [closest_match |-> <<>>, score |-> 0]

\* multi_dataset_icdo_validation.py lines 101, 45-50: extractOne is called
\* for a truthy string that is not a valid histology after normalisation.
CallsExtractOne(s, columns, row) ==
    LET h == RowGet(row, columns, "Histology")
    IN  /\ s = "multi_dataset_icdo_validation"
        /\ Truthy(h)
        /\ HasStrMethods(h)
        /\ Lower(Strip(h.s)) \notin Range(valid_histology_normalized)

(***************************************************************************)
(* The loaders                                                             *)
(***************************************************************************)

\* The extensions load_data / load_dataset accept.
\* multi_dataset_validation.py lines 18-23 (CSV, Excel);
\* icdo_validation.py lines 19-26 and multi_dataset_icdo_validation.py
\* lines 20-27 (CSV, Excel, XML); icd10_validation.py line 117 reads CSV
\* whatever the name.
SupportedExtension(s, path) ==
    CASE s = "icd10_validation" -> TRUE
      [] s = "multi_dataset_validation" ->
           EndsWith(path, <<".", "c", "s", "v">>) \/ EndsWith(path, <<".", "x", "l", "s", "x">>)
      [] OTHER ->
           EndsWith(path, <<".", "c", "s", "v">>) \/ EndsWith(path, <<".", "x", "l", "s", "x">>)
           \/ EndsWith(path, <<".", "x", "m", "l">>)

\* file_path.split('/')[-1]
RECURSIVE BaseName(_)
BaseName(path) ==
    IF \E i \in DOMAIN path : path[i] = "/"
    THEN BaseName(Tail(path))
    ELSE path

\* The name a dataset is reported under.
\* multi_dataset_validation.py line 135: the base name;
\* multi_dataset_icdo_validation.py line 195: the path.
DatasetName(s, path) ==
    IF s = "multi_dataset_validation" THEN BaseName(path) ELSE path

(***************************************************************************)
(* The state of a run                                                      *)
(***************************************************************************)

VARIABLES
    script,                 \* which of the four scripts runs
    file_paths,             \* the files of the run, in submission order
    file_index,             \* the file the main loop is at (1-based)
    pc,                     \* "load", "validate", "exit" or "crashed"
    data,                   \* the loaded DataFrame
    dataset_name,           \* the name the dataset is reported under
    index,                  \* rows of data already iterated
    compliance_issues,      \* validate_icd10: compliance_issues
    compliance_counts,      \* validate_icd10: compliance_counts
    issues,                 \* validate_icdo_data: issues
    total_histology,        \* validate_icdo_data: total_histology
    compliant_histology,    \* validate_icdo_data: compliant_histology
    total_staging,          \* validate_icdo_data: total_staging
    compliant_staging,      \* validate_icdo_data: compliant_staging
    all_compliance_issues,  \* multi_dataset_validation: all_compliance_issues
    all_compliance_counts,  \* multi_dataset_validation: all_compliance_counts
    compliance_rate,        \* the printed ICD-10 compliance summary
    compliance_percentages, \* validate_icdo_data: compliance_percentages
    error_summary,          \* generate_compliance_report: error_summary
    console                 \* the lines printed about each file, in order

icd10Locals == <<compliance_issues, compliance_counts>>

icdoLocals ==
    <<issues, total_histology, compliant_histology, total_staging,
      compliant_staging>>

mainVars == <<all_compliance_issues, all_compliance_counts, compliance_rate>>

reportVars == <<compliance_percentages, error_summary>>

vars ==
    <<script, file_paths, file_index, pc, data, dataset_name, index,
      icd10Locals, icdoLocals, mainVars, reportVars, console>>

\* A printed line about a file: "loaded" and "error" are the loader's
\* messages, "dataset" is the heading of a compliance report.  path is the
\* file the line names, <<>> when it names none.
Line(kind, path) == [kind |-> kind, path |-> path]

\* What the loader prints when it fails.
\* multi_dataset_validation.py line 27 and icd10_validation.py line 138
\* name file_path.  icdo_validation.py line 29 and
\* multi_dataset_icdo_validation.py line 29 print only the exception: the
\* ValueError of an unsupported extension does not name the file, the
\* exception of a failed read may or may not.
LoadErrorLines(s, path, supported) ==
    IF s \in {"icd10_validation", "multi_dataset_validation"}
    THEN {Line("error", path)}
    ELSE IF supported THEN {Line("error", path), Line("error", <<>>)}
    ELSE {Line("error", <<>>)}

\* The empty dict.
EmptyDict == <<>>

\* dict[key] = value
DictPut(dict, key, value) ==
    [k \in DOMAIN dict \cup {key} |-> IF k = key THEN value ELSE dict[k]]

Init ==
    /\ script \in Scripts
    /\ file_paths \in
         IF script \in MultiScripts THEN SeqsUpTo(Paths, MaxFiles)
         ELSE {<<DefaultPath>>}
    /\ file_index = 1
    /\ pc = "load"
    /\ data = NoData
    /\ dataset_name = <<>>
    /\ index = 0
    /\ compliance_issues = <<>>
    /\ compliance_counts = EmptyDict
    /\ issues = <<>>
    /\ total_histology = 0
    /\ compliant_histology = 0
    /\ total_staging = 0
    /\ compliant_staging = 0
    /\ all_compliance_issues = <<>>
    /\ all_compliance_counts = EmptyDict
    /\ compliance_rate = EmptyDict
    /\ compliance_percentages = EmptyDict
    /\ error_summary = EmptyDict
    /\ console = <<>>

\* Where main goes after a file: to the next file of a multi-dataset run,
\* and out of a single-dataset script.
NextFile ==
    /\ file_index' = file_index + 1
    /\ pc' = IF script \in MultiScripts THEN "load" ELSE "exit"

\* load_data / load_dataset prints the error and returns None (unsupported
\* extension, missing file, parse failure): the dataset is skipped.  In icd10_validation.py
\* the FileNotFoundError is caught and the script ends.
LoadFails ==
    /\ pc = "load"
    /\ file_index <= Len(file_paths)
    /\ \E line \in LoadErrorLines(script, file_paths[file_index],
                                  SupportedExtension(script,
                                                     file_paths[file_index])) :
         console' = Append(console, line)
    /\ NextFile
    /\ UNCHANGED <<script, file_paths, data, dataset_name, index,
                   icd10Locals, icdoLocals, mainVars, reportVars>>

\* The file loads, and validate_icd10 / validate_icdo_data is entered: its
\* locals are initialised.
LoadSucceeds ==
    /\ pc = "load"
    /\ file_index <= Len(file_paths)
    /\ SupportedExtension(script, file_paths[file_index])
    /\ IsDataset(data', script, Len(file_paths))
    /\ dataset_name' = DatasetName(script, file_paths[file_index])
    /\ index' = 0
    /\ compliance_issues' = <<>>
    /\ compliance_counts' =
         IF script \in Icd10Scripts
         THEN [c \in data'.columns \cap Icd10Columns |->
                 [valid |-> 0, total |-> 0]]
         ELSE EmptyDict
    /\ issues' = <<>>
    /\ total_histology' = 0
    /\ compliant_histology' = 0
    /\ total_staging' = 0
    /\ compliant_staging' = 0
    /\ console' =
         IF script = "multi_dataset_validation"
         THEN Append(console, Line("loaded", file_paths[file_index]))
         ELSE console
    /\ pc' = "validate"
    /\ UNCHANGED <<script, file_paths, file_index, mainVars, reportVars>>

\* One iteration of validate_icd10's loop over the rows.
ValidateRowIcd10 ==
    /\ pc = "validate"
    /\ script \in Icd10Scripts
    /\ index < Len(data.rows)
    /\ LET st0 == [issues |-> compliance_issues,
                   counts |-> compliance_counts, raised |-> FALSE]
           row == data.rows[index + 1]
           st  == IF script = "multi_dataset_validation"
                  THEN RowMulti(st0, 1, data.columns, row, index + 1,
                                dataset_name)
                  ELSE RowSingle(st0, 1, data.columns, row, index + 1)
       IN  /\ compliance_issues' = st.issues
           /\ compliance_counts' = st.counts
           /\ pc' = IF st.raised THEN "crashed" ELSE "validate"
    /\ index' = index + 1
    /\ UNCHANGED <<script, file_paths, file_index, data, dataset_name,
                   icdoLocals, mainVars, reportVars, console>>

\* One iteration of validate_icdo_data's loop over the rows.
ValidateRowIcdo ==
    /\ pc = "validate"
    /\ script \in IcdoScripts
    /\ index < Len(data.rows)
    /\ \E fz \in IF CallsExtractOne(script, data.columns, data.rows[index + 1])
                 THEN FuzzyResults ELSE {NoFuzzyResult} :
         LET st0 == [issues |-> issues, raised |-> FALSE,
                     total_histology |-> total_histology,
                     compliant_histology |-> compliant_histology,
                     total_staging |-> total_staging,
                     compliant_staging |-> compliant_staging]
             row == data.rows[index + 1]
             st  == IF script = "multi_dataset_icdo_validation"
                    THEN RowIcdoMulti(st0, data.columns, row, index + 1, fz)
                    ELSE RowIcdoSingle(st0, data.columns, row, index + 1)
         IN  /\ issues' = st.issues
             /\ total_histology' = st.total_histology
             /\ compliant_histology' = st.compliant_histology
             /\ total_staging' = st.total_staging
             /\ compliant_staging' = st.compliant_staging
             /\ pc' = IF st.raised THEN "crashed" ELSE "validate"
    /\ index' = index + 1
    /\ UNCHANGED <<script, file_paths, file_index, data, dataset_name,
                   icd10Locals, mainVars, reportVars, console>>

\* The printed compliance summary of one dataset's counts.
RatesOf(counts) == [c \in DOMAIN counts |-> Icd10Rate(counts[c])]

\* validate_icd10 returns.  multi_dataset_validation.py lines 136-139: the
\* issues are appended to all_compliance_issues and the counts stored under
\* the dataset's name.  icd10_validation.py lines 120-135: the summary is
\* printed.
ReturnIcd10 ==
    /\ pc = "validate"
    /\ script \in Icd10Scripts
    /\ index = Len(data.rows)
    /\ IF script = "multi_dataset_validation"
       THEN /\ all_compliance_issues' =
                 all_compliance_issues \o compliance_issues
            /\ all_compliance_counts' =
                 DictPut(all_compliance_counts, dataset_name,
                         compliance_counts)
            /\ UNCHANGED compliance_rate
       ELSE /\ compliance_rate' = RatesOf(compliance_counts)
            /\ UNCHANGED <<all_compliance_issues, all_compliance_counts>>
    /\ NextFile
    /\ UNCHANGED <<script, file_paths, data, dataset_name, index,
                   icd10Locals, icdoLocals, reportVars, console>>

\* validate_icdo_data returns its issues and compliance_percentages, and
\* generate_compliance_report prints them; in the multi-dataset script it
\* also builds error_summary when there are issues.
ReturnIcdo ==
    /\ pc = "validate"
    /\ script \in IcdoScripts
    /\ index = Len(data.rows)
    /\ compliance_percentages' =
         [c \in IcdoColumns |->
            IF c = "Histology"
            THEN IcdoRate(compliant_histology, total_histology)
            ELSE IcdoRate(compliant_staging, total_staging)]
    /\ error_summary' =
         IF script = "multi_dataset_icdo_validation" /\ Len(issues) > 0
         THEN ErrorSummary(EmptyDict, issues, 1)
         ELSE EmptyDict
    /\ console' =
         IF script = "multi_dataset_icdo_validation"
         THEN Append(console, Line("dataset", dataset_name))
         ELSE console
    /\ NextFile
    /\ UNCHANGED <<script, file_paths, data, dataset_name, index,
                   icd10Locals, icdoLocals, mainVars>>

\* The main loop of a multi-dataset script is over.
\* multi_dataset_validation.py lines 149-156: the compliance summary of
\* every dataset of all_compliance_counts is printed.
MainEnd ==
    /\ pc = "load"
    /\ file_index > Len(file_paths)
    /\ compliance_rate' =
         IF script = "multi_dataset_validation"
         THEN [d \in DOMAIN all_compliance_counts |->
                 RatesOf(all_compliance_counts[d])]
         ELSE compliance_rate
    /\ pc' = "exit"
    /\ UNCHANGED <<script, file_paths, file_index, data, dataset_name, index,
                   icd10Locals, icdoLocals, all_compliance_issues,
                   all_compliance_counts, reportVars, console>>

Next ==
    \/ LoadFails
    \/ LoadSucceeds
    \/ ValidateRowIcd10
    \/ ValidateRowIcdo
    \/ ReturnIcd10
    \/ ReturnIcdo
    \/ MainEnd

Spec == Init /\ [][Next]_vars

\* The ICD-10 validators alone.
InitIcd10 == Init /\ script \in Icd10Scripts

NextIcd10 ==
    \/ LoadFails
    \/ LoadSucceeds
    \/ ValidateRowIcd10
    \/ ReturnIcd10
    \/ MainEnd

SpecIcd10 == InitIcd10 /\ [][NextIcd10]_vars

\* The ICD-O validators alone.
InitIcdo == Init /\ script \in IcdoScripts

NextIcdo ==
    \/ LoadFails
    \/ LoadSucceeds
    \/ ValidateRowIcdo
    \/ ReturnIcdo
    \/ MainEnd

SpecIcdo == InitIcdo /\ [][NextIcdo]_vars

(***************************************************************************)
(* Properties                                                              *)
(***************************************************************************)

\* The rule catalog of the running ICD-10 script.
Catalog == IF script = "multi_dataset_validation" THEN rules_multi ELSE rules_single

\* The rule of a column.
RuleOf(column) ==
    Catalog[CHOOSE i \in DOMAIN Catalog : Catalog[i].column = column]

\* The positions in a list of issues of those about a row and a column.
IssuesAt(list, r, column) ==
    {i \in DOMAIN list : list[i].row = r /\ list[i].column = column}

\* The positions in a list of issues of those about a column.
IssuesOf(list, column) == {i \in DOMAIN list : list[i].column = column}

\* The rows whose iteration has run to its end.
EvaluatedRows == IF pc = "crashed" THEN 1..(index - 1) ELSE 1..index

\* The rule columns the loaded dataset has.
PresentColumns == data.columns \cap Icd10Columns

\* validate_icd10 / validate_icdo_data has returned and its caller has
\* taken the results: the function's locals are those it returned.
Returned ==
    /\ pc \in {"load", "exit"}
    /\ data # NoData
    /\ index = Len(data.rows)

\* C1: after validate_icd10 has evaluated rows of a dataset, every rule
\* column present has total_count = number of rows evaluated, and
\* valid_count + number of issues of the column = total_count.
C1_TallyPartition ==
    (script \in Icd10Scripts /\ pc # "crashed") =>
        \A c \in DOMAIN compliance_counts :
            /\ compliance_counts[c].total = index
            /\ compliance_counts[c].valid
                 + Cardinality(IssuesOf(compliance_issues, c))
               = compliance_counts[c].total

\* C2: in validate_icd10, when a row is evaluated, a null value in a column
\* whose rule has allow_null = true increments the column's valid_count and
\* appends no issue for that row and column, whatever the kind of the rule.
C2_NullAllowedIsValid ==
    [][(ValidateRowIcd10 /\ pc' # "crashed") =>
         \A c \in PresentColumns :
            (RuleOf(c).allow_null /\ IsNa(data.rows[index + 1][c])) =>
               /\ compliance_counts'[c].valid = compliance_counts[c].valid + 1
               /\ compliance_counts'[c].total = compliance_counts[c].total + 1
               /\ IssuesAt(compliance_issues', index + 1, c) = {}]_vars

\* A null value of the binary column On Clinical Trial has been evaluated
\* and counted valid.
C2_Witness ==
    /\ script \in Icd10Scripts
    /\ pc = "validate"
    /\ index = 1
    /\ "On Clinical Trial" \in data.columns
    /\ IsNa(data.rows[1]["On Clinical Trial"])
    /\ compliance_counts["On Clinical Trial"].valid = 1
    /\ compliance_issues = <<>>

\* C3: in validate_icd10, every evaluated null value in a column whose rule
\* has allow_null = false (Vital Status, ICD Version, ICD Code) has an issue
\* for its row and column, and is not counted valid.
C3_NullForbiddenIsIssue ==
    (script \in Icd10Scripts) =>
        \A c \in PresentColumns : \A r \in EvaluatedRows :
            (~RuleOf(c).allow_null /\ IsNa(data.rows[r][c])) =>
               /\ IssuesAt(compliance_issues, r, c) # {}
               /\ compliance_counts[c].valid < compliance_counts[c].total

\* C4: in multi_dataset_validation's validate_icd10, a non-null value of On
\* Clinical Trial has no issue if and only if it is one of the declared
\* tokens, and the column's valid_count counts every evaluated value that is
\* null or a declared token.
C4_BinaryTokensPass ==
    (script = "multi_dataset_validation"
       /\ "On Clinical Trial" \in data.columns) =>
        LET c == "On Clinical Trial"
            passes(r) == IsNa(data.rows[r][c]) \/ PyIn(data.rows[r][c], BinaryTokens)
        IN  /\ \A r \in EvaluatedRows :
                 passes(r) <=> IssuesAt(compliance_issues, r, c) = {}
            /\ compliance_counts[c].valid
                 = Cardinality({r \in EvaluatedRows : passes(r)})

\* The declared ICD-10 pattern matched against the whole string: the match
\* starts at the first character and ends after the last.
FullMatchCauseOfDeath(s) ==
    \E p \in ReMore(s, ReCodeRange(s, {1})) : p = Len(s) + 1

\* C5: in multi_dataset_validation's validate_icd10, a non-null value of
\* Cause of Death has no issue (is valid) if and only if the whole of its
\* string form matches the declared pattern.
C5_RegexFullMatch ==
    (script = "multi_dataset_validation"
       /\ "Cause of Death" \in data.columns) =>
        LET c == "Cause of Death"
        IN  \A r \in EvaluatedRows :
              ~IsNa(data.rows[r][c]) =>
                 (IssuesAt(compliance_issues, r, c) = {}
                    <=> FullMatchCauseOfDeath(PyStr(data.rows[r][c])))

\* The issues of the running validator.
CurrentIssues == IF script \in Icd10Scripts THEN compliance_issues ELSE issues

\* The enumerated columns the running validator checks.
EnumColumns ==
    IF script \in Icd10Scripts
    THEN {"Cause of Death Attributable to Treatment", "Vital Status",
          "ICD Version", "Disability"}
    ELSE IcdoColumns

\* The allowed values of an enumerated column.
AllowedValues(column) ==
    CASE column = "Histology" -> valid_histology
      [] column = "Staging System" -> valid_staging_systems
      [] OTHER -> StandardValuesOf(column)

\* The value is, case-sensitively, one of the allowed values.
ExactMatch(v, column) ==
    v.t = "str" /\ v.s \in Range(AllowedValues(column))

\* A string trimmed of whitespace and lower-cased.
Trimmed(s) == Lower(Strip(s))

TrimmedTreatment == {Trimmed(s) : s \in Range(TreatmentValues)}

TrimmedVitalStatus == {Trimmed(s) : s \in Range(VitalStatusValues)}

TrimmedIcdVersion == {Trimmed(s) : s \in Range(IcdVersionValues)}

TrimmedDisability == {Trimmed(s) : s \in Range(DisabilityValues)}

TrimmedHistology == {Trimmed(s) : s \in Range(valid_histology)}

TrimmedStaging == {Trimmed(s) : s \in Range(valid_staging_systems)}

\* The allowed values of an enumerated column, trimmed and lower-cased.
TrimmedAllowed(column) ==
    CASE column = "Histology" -> TrimmedHistology
      [] column = "Staging System" -> TrimmedStaging
      [] column = "Cause of Death Attributable to Treatment" -> TrimmedTreatment
      [] column = "Vital Status" -> TrimmedVitalStatus
      [] column = "ICD Version" -> TrimmedIcdVersion
      [] column = "Disability" -> TrimmedDisability

\* The value is not an allowed value, but equals one after trimming
\* whitespace and lower-casing.
NormalizedOnlyMatch(v, column) ==
    /\ v.t = "str"
    /\ v.s \notin Range(AllowedValues(column))
    /\ Trimmed(v.s) \in TrimmedAllowed(column)

\* C6 (as amended): for every enumerated column, an evaluated value that
\* exactly equals an allowed value has no issue; a value that equals an
\* allowed value only after trimming and lower-casing has no issue in
\* multi_dataset_icdo_validation (Histology and Staging System), and has an
\* issue in every other validator.
C6_EnumeratedMatching ==
    \A c \in data.columns \cap EnumColumns : \A r \in EvaluatedRows :
        LET v == data.rows[r][c]
            valid == IssuesAt(CurrentIssues, r, c) = {}
        IN  /\ ExactMatch(v, c) => valid
            /\ NormalizedOnlyMatch(v, c) =>
                 (valid <=> script = "multi_dataset_icdo_validation")

\* C6 (as claimed): a value that equals an allowed value only after
\* trimming and lower-casing is valid for Histology in
\* multi_dataset_icdo_validation and invalid for every other enumerated
\* column, Staging System included.
C6_Original ==
    \A c \in data.columns \cap EnumColumns : \A r \in EvaluatedRows :
        LET v == data.rows[r][c]
            valid == IssuesAt(CurrentIssues, r, c) = {}
        IN  /\ ExactMatch(v, c) => valid
            /\ NormalizedOnlyMatch(v, c) =>
                 (valid <=> (script = "multi_dataset_icdo_validation"
                               /\ c = "Histology"))

\* A Staging System value that matches only after normalisation has been
\* evaluated by multi_dataset_icdo_validation and counted compliant.
C6_Witness ==
    /\ script = "multi_dataset_icdo_validation"
    /\ pc = "validate"
    /\ index = 1
    /\ "Staging System" \in data.columns
    /\ NormalizedOnlyMatch(data.rows[1]["Staging System"], "Staging System")
    /\ issues = <<>>
    /\ compliant_staging = 1

\* The rate the claim gives a column's tally.
ClaimedRate(valid, total) ==
    IF total = 0 THEN Whole(100) ELSE Pct(valid, total)

\* C7: in every validator the compliance rate reported for a column whose
\* total_count is 0 is 100%, and otherwise valid_count / total_count x 100.
C7_ZeroTotalIsFull ==
    /\ (script \in IcdoScripts /\ Returned) =>
          /\ compliance_percentages["Histology"]
               = ClaimedRate(compliant_histology, total_histology)
          /\ compliance_percentages["Staging System"]
               = ClaimedRate(compliant_staging, total_staging)
    /\ (script = "icd10_validation" /\ Returned) =>
          \A c \in DOMAIN compliance_counts :
              compliance_rate[c]
                = ClaimedRate(compliance_counts[c].valid,
                              compliance_counts[c].total)
    /\ (script = "multi_dataset_validation" /\ pc = "exit") =>
          \A d \in DOMAIN all_compliance_counts :
            \A c \in DOMAIN all_compliance_counts[d] :
              compliance_rate[d][c]
                = ClaimedRate(all_compliance_counts[d][c].valid,
                              all_compliance_counts[d][c].total)

\* C8: a rule column absent from the dataset has no tally or compliance
\* entry in the result and no issue naming it, in the ICD-10 validators and
\* in the ICD-O validators.
C8_AbsentColumnSkipped ==
    /\ (script \in Icd10Scripts /\ Returned) =>
          \A c \in Icd10Columns \ data.columns :
              /\ c \notin DOMAIN compliance_counts
              /\ IssuesOf(compliance_issues, c) = {}
    /\ (script \in IcdoScripts /\ Returned) =>
          \A c \in IcdoColumns \ data.columns :
              /\ c \notin DOMAIN compliance_percentages
              /\ IssuesOf(issues, c) = {}

\* The issues whose invalid value, as the message quotes it, is k.
IssuesQuoting(list, k) == {i \in DOMAIN list : PyStr(list[i].value) = k}

\* C9: when multi_dataset_icdo_validation has reported the first dataset of
\* a run, every key of the error-frequency table is the invalid value
\* quoted in some issue, and its count is the number of issues with that
\* invalid value.
C9_ErrorSummaryByValue ==
    (script = "multi_dataset_icdo_validation" /\ Returned /\ file_index = 2) =>
        \A k \in DOMAIN error_summary :
            /\ IssuesQuoting(issues, k) # {}
            /\ error_summary[k] = Cardinality(IssuesQuoting(issues, k))

\* The value whose evaluation raised, when the run has crashed.
RaisingValue ==
    IF script \in Icd10Scripts THEN data.rows[index]["Cause of Death"]
    ELSE LET h == RowGet(data.rows[index], data.columns, "Histology")
             s == RowGet(data.rows[index], data.columns, "Staging System")
         IN  IF Truthy(h) /\ ~HasStrMethods(h) THEN h ELSE s

\* C10: validation never raises on a non-null field value: a run ends in an
\* exception only when the value being evaluated is null.
C10_NeverRaises == pc = "crashed" => IsNa(RaisingValue)


\* The files the main loop of a multi-dataset script is done with.
FilesDone == 1..(file_index - 1)

\* The main loop is between two files, or over.
BetweenFiles == script \in MultiScripts /\ pc \in {"load", "exit"}

\* C11: in a multi-dataset run no failure while loading or validating a
\* dataset stops the run: no exception leaves the main loop, and between
\* two files every file the loop is done with has its own printed line, in
\* submission order: the record of its load failure, or the line naming
\* the dataset that loaded and was validated.  In the ICD-10 run the
\* results stored are those of the datasets that loaded.
C11_FailureDoesNotAbort ==
    /\ script \in MultiScripts => pc # "crashed"
    /\ BetweenFiles =>
         /\ Len(console) = file_index - 1
         /\ \A i \in FilesDone :
               \/ console[i].kind = "error"
               \/ console[i].path = file_paths[i]
    /\ (BetweenFiles /\ script = "multi_dataset_validation") =>
         DOMAIN all_compliance_counts =
           {BaseName(console[i].path) :
              i \in {j \in FilesDone : console[j].kind = "loaded"}}

\* The position of a column's rule in the rule catalog.
CatalogIndex(column) ==
    CHOOSE i \in DOMAIN Catalog : Catalog[i].column = column

\* Issue a comes before issue b: an earlier row, or the same row and a rule
\* declared earlier.
IssueBefore(a, b) ==
    \/ a.row < b.row
    \/ a.row = b.row /\ CatalogIndex(a.column) < CatalogIndex(b.column)

\* What a run of validate_icd10 from its start gives on the rows of the
\* loaded dataset iterated so far.
SecondRun ==
    validate_icd10(script, FreshLocals(data.columns), data, dataset_name,
                   1, index)

\* C12: validate_icd10 is deterministic and leaves its input alone: its
\* issues are in row order and, within a row, in the order the rules are
\* declared; its issues and tallies are at every step those of a second
\* run from the start over the same rows of the dataset; and no step of it
\* changes the dataset.
C12_Deterministic ==
    /\ []((script \in Icd10Scripts /\ data # NoData) =>
            /\ \A i, j \in DOMAIN compliance_issues :
                  i < j => IssueBefore(compliance_issues[i],
                                       compliance_issues[j])
            /\ compliance_issues = SecondRun.issues
            /\ compliance_counts = SecondRun.counts)
    /\ [][(ValidateRowIcd10 \/ ReturnIcd10) => data' = data]_vars

\* validate_icd10 has appended four issues over two rows of two invalid
\* columns each.
C12_Witness ==
    /\ script = "multi_dataset_validation"
    /\ pc = "validate"
    /\ index = 2
    /\ Len(compliance_issues) = 4
    /\ compliance_issues[2].row = 1
    /\ compliance_issues[3].row = 2
    /\ compliance_issues[1].column # compliance_issues[2].column

\* The allowed histology value, as listed, of a lower-cased candidate.
OriginalCase(m) ==
    valid_histology[CHOOSE i \in DOMAIN valid_histology :
                      valid_histology_normalized[i] = m]

\* The issue the claim gives a Histology value that fails the normalized
\* match, when process.extractOne returns fz.
ClaimedHistologyIssue(value, rownum, fz) ==
    IF fz.score > 80
    THEN Issue(<<>>, rownum, "Histology", value, "histology_suggest",
               OriginalCase(fz.closest_match))
    ELSE Issue(<<>>, rownum, "Histology", value, "histology_generic", <<>>)

\* C13: in multi_dataset_icdo_validation, when a row's Histology value
\* fails the normalized match, the issue appended for it is, for the
\* candidate and score process.extractOne returned, the one suggesting the
\* candidate as listed in the allowed values (original case) when the
\* score is above 80, and the generic message otherwise.
C13_SuggestionOriginalCase ==
    [][(ValidateRowIcdo
          /\ CallsExtractOne(script, data.columns, data.rows[index + 1])) =>
         /\ Len(issues') > Len(issues)
         /\ \E fz \in FuzzyResults :
              issues'[Len(issues) + 1] =
                ClaimedHistologyIssue(data.rows[index + 1]["Histology"],
                                      index + 1, fz)]_vars

\* The field value is 0 or the empty string.
ZeroOrEmpty(v) == v = Num(0) \/ v = Str(<<>>)

\* Between a list of issues and its extension, the value at row r of
\* column c was given a verdict: counted valid with no issue, or not
\* counted valid with exactly one issue.
Verdict(validBefore, validAfter, listAfter, r, c) ==
    \/ /\ validAfter = validBefore + 1
       /\ IssuesAt(listAfter, r, c) = {}
    \/ /\ validAfter = validBefore
       /\ Cardinality(IssuesAt(listAfter, r, c)) = 1

\* C14: in every validator a field value of 0 or '' is evaluated like any
\* other non-null value: the row step that reads it counts it in its
\* column's total and gives it a valid or an invalid verdict.
C14_ZeroAndEmptyNotNull ==
    /\ [][(ValidateRowIcd10 /\ pc' # "crashed") =>
            \A c \in PresentColumns :
               ZeroOrEmpty(data.rows[index + 1][c]) =>
                 /\ compliance_counts'[c].total
                      = compliance_counts[c].total + 1
                 /\ Verdict(compliance_counts[c].valid,
                            compliance_counts'[c].valid,
                            compliance_issues', index + 1, c)]_vars
    /\ [][(ValidateRowIcdo /\ pc' # "crashed") =>
            /\ ("Histology" \in data.columns
                  /\ ZeroOrEmpty(data.rows[index + 1]["Histology"])) =>
                 /\ total_histology' = total_histology + 1
                 /\ Verdict(compliant_histology, compliant_histology',
                            issues', index + 1, "Histology")
            /\ ("Staging System" \in data.columns
                  /\ ZeroOrEmpty(data.rows[index + 1]["Staging System"])) =>
                 /\ total_staging' = total_staging + 1
                 /\ Verdict(compliant_staging, compliant_staging',
                            issues', index + 1, "Staging System")]_vars

\* The files of the run, among those the main loop is done with, that
\* loaded and were validated.
DatasetsValidated == {i \in FilesDone : console[i].kind = "loaded"}

\* The issues of the combined list that carry a dataset's name and are
\* about a column.
IssuesNamed(name, column) ==
    {i \in DOMAIN all_compliance_issues :
       /\ all_compliance_issues[i].dataset = name
       /\ all_compliance_issues[i].column = column}

\* C15: in the multi-dataset ICD-10 run, between two files,
\* all_compliance_counts has one entry for each dataset validated, and the
\* tallies stored under a name are those of the dataset whose issues carry
\* that name: the issues of that name about a column are no more than the
\* values of the column its tallies count as not valid.
C15_TalliesPerDataset ==
    (BetweenFiles /\ script = "multi_dataset_validation") =>
        /\ Cardinality(DOMAIN all_compliance_counts)
             = Cardinality(DatasetsValidated)
        /\ \A d \in DOMAIN all_compliance_counts :
             \A c \in DOMAIN all_compliance_counts[d] :
               Cardinality(IssuesNamed(d, c))
                 <= all_compliance_counts[d][c].total
                      - all_compliance_counts[d][c].valid
============================================================================
